---- MODULE Spec2Model ----
(***************************************************************************)
(* Screenshot service: the bulk-screenshot edge function                   *)
(* (supabase/functions/bulk-screenshot/index.ts), the single-screenshot    *)
(* edge function (supabase/functions/screenshot/index.ts) and the client   *)
(* library (src/lib/screenshot-api.ts).                                    *)
(*                                                                         *)
(* Strings.  A string handed to `new URL(s)` is modelled by what the URL   *)
(* parser makes of it: a record [scheme, hostpath, query].  scheme = ""    *)
(* means the parser throws (hostpath then holds the raw characters);       *)
(* otherwise scheme is parsed.protocol, hostpath the characters of         *)
(* parsed.hostname + parsed.pathname and query the names of the search     *)
(* parameters in order.  File names are sequences of characters.           *)
(*                                                                         *)
(* Clock readings (Date.now()) are not modelled: no row, count or status   *)
(* depends on them.                                                        *)
(***************************************************************************)
EXTENDS Integers, Sequences, FiniteSets, TLC

VARIABLES
  pc,            \* position of the bulk-screenshot handler
  req,           \* the request it serves: method, credential, body
  speedMode,     \* body.speed || "fast"
  cleanUrls,     \* requests sent to the vendor
  vendorCalls,   \* fetch("https://api.screenshotone.com/bulk") calls issued
  downloadCalls, \* fetch(item.url) calls issued
  bulkStatus,    \* how the vendor call settled: rejected, non-2xx or 2xx
  bulkData,      \* vendor response being read
  responses,     \* bulkData.responses || []
  item,          \* position of each downloadPromises callback
  dl,            \* what each item's download did (history of the callback)
  results,       \* the results array, in push order
  zip,           \* the JSZip object: entry name -> content
  response,      \* the Response the handler returned
  fnPos,         \* two positions of one batch
  fnUrls,        \* the URLs submitted at those positions
  fnNames,       \* the archive file names computed for them
  cpc,           \* position of one generateScreenshot call
  cfg,           \* whether SUPABASE_URL and SUPABASE_ANON_KEY are set
  curl,          \* the url argument of generateScreenshot
  clientFetches, \* fetch calls issued by generateScreenshot
  http,          \* what the fetch brought back
  spc,           \* position of the /screenshot handler
  sreq,          \* the request the /screenshot handler serves
  sresp,         \* the Response the /screenshot handler returned
  result,        \* the ScreenshotResult generateScreenshot returned
  isLoading,       \* useScreenshots: the isLoading state
  processingQueue, \* useScreenshots: the processingQueue state
  screenshots,     \* useScreenshots: the screenshots state
  toasts,          \* useScreenshots: the toasts state
  timers,          \* ids of the toasts whose 5-second timeout is pending
  tasks,           \* the callbacks of processingItems.map, by item id
  toastLog,        \* every toast addToast has added, with the item it reports
  file,            \* CsvUpload: the file state (0: null)
  csvUrls,         \* CsvUpload: the urls state
  csvError,        \* CsvUpload: the error state
  reads,           \* CsvUpload: FileReader reads in flight
  zipCall,         \* the last generateBulkScreenshotsZip call of CsvUpload
  csvContent,      \* the argument of parseCSVForUrls
  parsed,          \* what parseCSVForUrls returned
  vIn,             \* a string given to every copy of isValidUrl
  vOut             \* what the copies returned

bulkVars == <<pc, req, speedMode, cleanUrls, vendorCalls, downloadCalls,
              bulkStatus, bulkData, responses, item, dl, results, zip, response>>
nameVars == <<fnPos, fnUrls, fnNames>>
singleVars == <<cpc, cfg, curl, clientFetches, http, spc, sreq, sresp,
                result>>
hookVars == <<isLoading, processingQueue, screenshots, toasts, timers, tasks,
              toastLog>>
csvVars == <<file, csvUrls, csvError, reads, zipCall>>
parseVars == <<csvContent, parsed>>
validVars == <<vIn, vOut>>
uiVars == <<hookVars, csvVars, parseVars, validVars>>
vars == <<bulkVars, nameVars, singleVars, uiVars>>

----------------------------------------------------------------------------
(* Bounds of the model *)

\* longest urls array (below the cap) and longest vendor responses array
MaxLen == 2

\* the cap on body.urls
MaxBatch == 20

\* the URLs CsvUpload keeps of one file
MaxUpload == 20

\* the URLs generateBulkScreenshotsZip takes
MaxPerRequest == 20

\* characters kept by sanitizeFilename
MaxStemLen == 100

\* items submitted to generateScreenshots in one run of the hook
MaxTasks == 3

\* symbols of a string given to isValidUrl
MaxChars == 4

\* pieces of a text given to parseCSVForUrls
MaxPieces == 4

\* reads of selected files that are pending at once
MaxReads == 2

\* query parameters of a URL given to sanitizeUrl
MaxParams == 3

----------------------------------------------------------------------------
(* Strings and URLs *)

Range(s) == {s[i] : i \in 1..Len(s)}

RECURSIVE SelectSeqP(_, _, _)
\* s.filter(keep), for a predicate given as the set of kept values
SelectSeqP(s, keep, i) ==
  IF i > Len(s) THEN <<>>
  ELSE (IF s[i] \in keep THEN <<s[i]>> ELSE <<>>) \o SelectSeqP(s, keep, i + 1)

Url(scheme, hostpath, query) ==
  [scheme |-> scheme, hostpath |-> hostpath, query |-> query]

\* "https://a.c/"
UA == Url("https:", <<"a", ".", "c", "/">>, <<>>)
\* "https://a.c/?gdpr=1": same host and path as UA, another query string
UAq == Url("https:", <<"a", ".", "c", "/">>, <<"gdpr">>)
\* "ftp://a.c/": parses, but is not http(s)
UFtp == Url("ftp:", <<"a", ".", "c", "/">>, <<>>)
\* "not a url": new URL throws
UBad == Url("", <<"n", "o", "t", " ", "a", " ", "u", "r", "l">>, <<>>)
\* body.urls[index] past the end of the array
Undefined == Url("", <<"u", "n", "d", "e", "f", "i", "n", "e", "d">>, <<>>)

RepeatChar(c, n) == [i \in 1..n |-> c]
\* "http://aaa...a/b" and "http://aaa...a/c": host and path of MaxStemLen + 2
\* characters that agree on the first MaxStemLen
ULongB == Url("http:", RepeatChar("a", MaxStemLen) \o <<"/", "b">>, <<>>)
ULongC == Url("http:", RepeatChar("a", MaxStemLen) \o <<"/", "c">>, <<>>)
\* "http://a/1": its stem ends in an underscore and a digit
UDigit == Url("http:", <<"a", "/", "1">>, <<>>)

ValidUrls == {UA, UAq}
InvalidUrls == {UFtp, UBad}
BulkUrls == ValidUrls \cup InvalidUrls

isValidUrl(url) ==
  IF url.scheme = "" THEN FALSE
  ELSE url.scheme = "http:" \/ url.scheme = "https:"

\* [a-zA-Z0-9-_]
SafeChars ==
  {"a", "b", "c", "d", "e", "f", "g", "h", "i", "j", "k", "l", "m", "n", "o",
   "p", "q", "r", "s", "t", "u", "v", "w", "x", "y", "z",
   "A", "B", "C", "D", "E", "F", "G", "H", "I", "J", "K", "L", "M", "N", "O",
   "P", "Q", "R", "S", "T", "U", "V", "W", "X", "Y", "Z",
   "0", "1", "2", "3", "4", "5", "6", "7", "8", "9", "-", "_"}

Screenshot == <<"s", "c", "r", "e", "e", "n", "s", "h", "o", "t">>

sanitizeFilename(url) ==
  IF url.scheme = "" THEN Screenshot
  ELSE LET replaced == [i \in 1..Len(url.hostpath) |->
                          IF url.hostpath[i] \in SafeChars
                          THEN url.hostpath[i] ELSE "_"]
           cut == SubSeq(replaced, 1,
                         IF Len(replaced) < MaxStemLen
                         THEN Len(replaced) ELSE MaxStemLen)
       IN IF cut = <<>> THEN Screenshot ELSE cut

ConsentParams ==
  {"consent-modal", "consent", "cookie-consent", "gdpr", "privacy",
   "show-consent", "showConsent", "consent_modal", "cookie_consent"}

AllParams == ConsentParams \cup {"x", "y"}

\* Mutant: the whole query string is dropped
sanitizeUrlDropsQuery(url) ==
  IF url.scheme = "" THEN url ELSE [url EXCEPT !.query = <<>>]

sanitizeUrl(url) ==
  IF url.scheme = "" THEN url
  ELSE [url EXCEPT !.query = SelectSeqP(url.query, AllParams \ ConsentParams, 1)]

Digit(d) == <<"0", "1", "2", "3", "4", "5", "6", "7", "8", "9">>[d + 1]

RECURSIVE Decimal(_)
\* `${n}` for a natural number
Decimal(n) == IF n < 10 THEN <<Digit(n)>>
              ELSE Decimal(n \div 10) \o <<Digit(n % 10)>>

\* Mutant: the ordinal suffix is left out
FilenameNoIndex(originalUrl, index) ==
  sanitizeFilename(originalUrl) \o <<".", "p", "n", "g">>

\* Mutant: the underscore before the ordinal is left out
FilenameNoSeparator(originalUrl, index) ==
  sanitizeFilename(originalUrl) \o Decimal(index) \o <<".", "p", "n", "g">>

\* `${sanitizeFilename(originalUrl)}_${index + 1}.png`; index + 1 is the
\* position counted from 1, which is how positions are counted here

Filename(originalUrl, index) ==
  sanitizeFilename(originalUrl) \o <<"_">> \o Decimal(index)
    \o <<".", "p", "n", "g">>

ManifestName == <<"m", "a", "n", "i", "f", "e", "s", "t", ".", "t", "x", "t">>

----------------------------------------------------------------------------
(* Strings as text, and the URL parser *)

\* A text is a sequence of symbols.  A symbol is one character, or a word of
\* letters written as one symbol ("http" is the four letters h, t, t, p).
Letters == {"http", "https", "HTTP", "ftp", "javascript", "a"}
Space == {" ", "\n", "\r"}
Quotes == {"\""}

\* toLowerCase, symbol by symbol
Lower(c) == IF c = "HTTP" THEN "http" ELSE c

Least(S) == CHOOSE i \in S : \A j \in S : i <= j
Greatest(S) == CHOOSE i \in S : \A j \in S : j <= i

\* The part of s before, and after, the first symbol that is in stop
Before(s, stop) ==
  SubSeq(s, 1, Least({i \in 1..(Len(s) + 1) : i > Len(s) \/ s[i] \in stop}) - 1)
After(s, stop) == SubSeq(s, Len(Before(s, stop)) + 2, Len(s))

\* s.trim(), which is also the first step of the URL parser: leading and
\* trailing white space is removed
Trim(s) ==
  LET kept == {i \in 1..Len(s) : s[i] \notin Space}
  IN IF kept = {} THEN <<>> ELSE SubSeq(s, Least(kept), Greatest(kept))

\* parsed.protocol of a scheme given as its lower-case symbols
Protocol(scheme) ==
  CASE scheme = <<"http">> -> "http:"
    [] scheme = <<"https">> -> "https:"
    [] scheme = <<"ftp">> -> "ftp:"
    [] scheme = <<"javascript">> -> "javascript:"
    [] OTHER -> "other:"

\* new URL(s), without a base URL.  The parser removes leading and trailing
\* white space and every line break, reads the scheme (letters followed by a
\* colon; without one it fails), lowers its case and, for http, https and
\* ftp, skips the slashes and reads the host, which must not be empty nor hold
\* a space, and a port, which may be empty.  Any other scheme takes the rest
\* as it is.  The result is the record of Url; scheme "" stands for the throw.
NewURL(s) ==
  LET input == SelectSeqP(Trim(s), Range(s) \ {"\n", "\r"}, 1)
      word == Before(input, Range(input) \ Letters)
      scheme == [i \in 1..Len(word) |-> Lower(word[i])]
      rest == SubSeq(input, Len(word) + 2, Len(input))
      authority == SubSeq(rest, Len(Before(rest, Range(rest) \ {"/"})) + 1,
                          Len(rest))
      hostport == Before(authority, {"/"})
      host == Before(hostport, {":"})
      port == After(hostport, {":"})
  IN IF word = <<>> \/ Len(word) = Len(input) \/ input[Len(word) + 1] # ":"
     THEN Url("", s, <<>>)
     ELSE IF Protocol(scheme) \notin {"http:", "https:", "ftp:"}
     THEN Url(Protocol(scheme), rest, <<>>)
     ELSE IF host = <<>> \/ " " \in Range(host) \/ port # <<>>
     THEN Url("", s, <<>>)
     ELSE Url(Protocol(scheme), host \o After(authority, {"/"}), <<>>)

----------------------------------------------------------------------------
(* The bulk-screenshot handler: requests *)

\* SPEED_CONFIGS[speedMode]: a preset, undefined (reading a field of it
\* throws), or a property every object inherits (fields read as undefined)
Preset(wait_until, delay, block_scripts, timeout) ==
  [defined |-> TRUE, wait_until |-> wait_until, delay |-> delay,
   block_scripts |-> block_scripts, timeout |-> timeout]

SPEED_CONFIGS(speed) ==
  CASE speed = "fastest" -> Preset("load", "0", TRUE, "5000")
    [] speed = "fast" -> Preset("domcontentloaded", "0.5", FALSE, "8000")
    [] speed = "balanced" -> Preset("networkidle2", "1", FALSE, "12000")
    [] speed = "quality" -> Preset("networkidle0", "3", FALSE, "20000")
    [] speed = "toString" -> Preset("undefined", "undefined", FALSE, "undefined")
    [] OTHER -> [defined |-> FALSE, wait_until |-> "", delay |-> "",
                 block_scripts |-> FALSE, timeout |-> ""]

\* body.speed: "" is an absent field
Speeds == {"", "fastest", "turbo", "toString"}

\* body.speed || "fast"
SpeedModeOf(speed) == IF speed = "" THEN "fast" ELSE speed

SeqsUpTo(S, n) == UNION {[1..k -> S] : k \in 0..n}

AtCap == [i \in 1..MaxBatch |-> UA]
OverCap == [i \in 1..(MaxBatch + 1) |-> UA]
OverCapInvalid == [i \in 1..(MaxBatch + 1) |-> IF i = 2 THEN UBad ELSE UA]

UrlLists == SeqsUpTo(BulkUrls, MaxLen) \cup {AtCap, OverCap, OverCapInvalid}

\* What req.json() gives: it throws ("invalid"), gives null, or gives an object
\* whose urls field is absent, a non-empty string, or an array
Bodies ==
  {[json |-> j, urlsKind |-> "absent", urls |-> <<>>, speed |-> ""] :
      j \in {"invalid", "null"}}
  \cup {[json |-> "object", urlsKind |-> k, urls |-> <<>>, speed |-> ""] :
      k \in {"absent", "string"}}
  \cup {[json |-> "object", urlsKind |-> "array", urls |-> u, speed |-> s] :
      u \in UrlLists, s \in Speeds}

Requests == [method : {"OPTIONS", "GET", "POST"}, apiKey : BOOLEAN, body : Bodies]

\* Requests whose URLs carry query strings: up to MaxParams parameters, named
\* in the consent list or not, in any order and with repetitions; alone, or
\* before or after another URL
CleanParams == {"gdpr", "consent", "x", "y"}
CleanUrls ==
  {Url("https:", <<"a", ".", "c", "/">>, q) : q \in SeqsUpTo(CleanParams, MaxParams)}
CleanLists ==
  {<<u>> : u \in CleanUrls}
  \cup {<<u, v>> : u \in CleanUrls, v \in ValidUrls}
  \cup {<<v, u>> : u \in CleanUrls, v \in ValidUrls}
CleanRequests ==
  {[method |-> "POST", apiKey |-> TRUE,
    body |-> [json |-> "object", urlsKind |-> "array", urls |-> u, speed |-> s]] :
      u \in CleanLists, s \in {"", "fastest"}}

NoRequest ==
  [method |-> "", apiKey |-> FALSE,
   body |-> [json |-> "invalid", urlsKind |-> "absent", urls |-> <<>>,
             speed |-> ""]]

----------------------------------------------------------------------------
(* The bulk-screenshot handler: responses *)

EmptyZip == <<>>

Resp(status, kind, error, names, archive, mode) ==
  [status |-> status, kind |-> kind, error |-> error, names |-> names,
   archive |-> archive, mode |-> mode]

NoResponse == Resp(0, "none", "", <<>>, EmptyZip, "")

JsonError(status, error) == Resp(status, "json", error, <<>>, EmptyZip, "")

\* Mutant: only the first offending URL is reported
invalidUrlsFirstOnly(urls) ==
  LET bad == SelectSeqP(urls, {u \in Range(urls) : ~isValidUrl(u)}, 1)
  IN IF bad = <<>> THEN bad ELSE <<bad[1]>>

\* body.urls.filter((url) => !isValidUrl(url))
invalidUrls(urls) == SelectSeqP(urls, {u \in Range(urls) : ~isValidUrl(u)}, 1)

\* Mutant: the check of the cap is left out
ValidateNoCap(body) ==
  CASE body.json = "invalid" -> JsonError(500, "Failed to process screenshots")
    [] body.json = "null" -> JsonError(500, "Failed to process screenshots")
    [] body.urlsKind # "array" \/ Len(body.urls) = 0 ->
         JsonError(400, "URLs array is required")
    [] invalidUrls(body.urls) # <<>> ->
         Resp(400, "json", "Invalid URLs", invalidUrls(body.urls), EmptyZip, "")
    [] ~SPEED_CONFIGS(SpeedModeOf(body.speed)).defined ->
         JsonError(500, "Failed to process screenshots")
    [] OTHER -> NoResponse

\* Mutant: the URLs are validated before the cap is checked
ValidateUrlsFirst(body) ==
  CASE body.json = "invalid" -> JsonError(500, "Failed to process screenshots")
    [] body.json = "null" -> JsonError(500, "Failed to process screenshots")
    [] body.urlsKind # "array" \/ Len(body.urls) = 0 ->
         JsonError(400, "URLs array is required")
    [] invalidUrls(body.urls) # <<>> ->
         Resp(400, "json", "Invalid URLs", invalidUrls(body.urls), EmptyZip, "")
    [] Len(body.urls) > MaxBatch ->
         JsonError(400, "Maximum 20 URLs allowed per request")
    [] ~SPEED_CONFIGS(SpeedModeOf(body.speed)).defined ->
         JsonError(500, "Failed to process screenshots")
    [] OTHER -> NoResponse

\* The checks of the handler between `await req.json()` and the vendor call:
\* the error response, or NoResponse when the request goes on to the vendor.
\* A throw (req.json() fails, body is null, config is undefined) is answered
\* by the handler's catch.
Validate(body) ==
  CASE body.json = "invalid" -> JsonError(500, "Failed to process screenshots")
    [] body.json = "null" -> JsonError(500, "Failed to process screenshots")
    [] body.urlsKind # "array" \/ Len(body.urls) = 0 ->
         JsonError(400, "URLs array is required")
    [] Len(body.urls) > MaxBatch ->
         JsonError(400, "Maximum 20 URLs allowed per request")
    [] invalidUrls(body.urls) # <<>> ->
         Resp(400, "json", "Invalid URLs", invalidUrls(body.urls), EmptyZip, "")
    [] ~SPEED_CONFIGS(SpeedModeOf(body.speed)).defined ->
         JsonError(500, "Failed to process screenshots")
    [] OTHER -> NoResponse

----------------------------------------------------------------------------
(* The bulk-screenshot handler: the vendor's answer *)

\* One record of bulkData.responses, by what the callback reads of it: the
\* record itself (null: reading item.response throws), response.is_successful
\* and response.body.error_message ("" when absent or empty)
Item(isNull, ok, msg) ==
  [isNull |-> isNull, is_successful |-> ok, error_message |-> msg]

ItemOk == Item(FALSE, TRUE, "")
ItemFailMsg == Item(FALSE, FALSE, "Render timeout")
ItemFailNoMsg == Item(FALSE, FALSE, "")
ItemNull == Item(TRUE, FALSE, "")

Items == {ItemOk, ItemFailMsg, ItemFailNoMsg, ItemNull}

\* What bulkResponse.json() gives: it throws ("invalid"), gives null, or
\* gives an object whose responses field is absent, a non-array or an array
VendorBody(json, kind, list) == [json |-> json, respKind |-> kind, list |-> list]

NoBody == VendorBody("invalid", "absent", <<>>)

VendorBodies ==
  {VendorBody(j, "absent", <<>>) : j \in {"invalid", "null", "object"}}
  \cup {VendorBody("object", "notArray", <<>>)}
  \cup {VendorBody("object", "array", l) : l \in SeqsUpTo(Items, MaxLen)}

\* body.urls[index]
originalUrl(i) ==
  IF i <= Len(req.body.urls) THEN req.body.urls[i] ELSE Undefined

Row(url, filename, success, error) ==
  [url |-> url, filename |-> filename, success |-> success, error |-> error]

\* Mutant: no default reason
errorMsgNoDefault(it) == it.error_message

\* item.response?.body?.error_message || "Screenshot failed"
errorMsg(it) ==
  IF it.error_message = "" THEN "Screenshot failed" ELSE it.error_message

\* Mutant: no row is pushed while responses.map runs
FailedRowsLater(list, i) == <<>>

RECURSIVE FailedRows(_, _)
\* The rows pushed while responses.map runs: each callback runs to its first
\* await, so every vendor failure pushes its row before any download settles
FailedRows(list, i) ==
  IF i > Len(list) THEN <<>>
  ELSE (IF ~list[i].isNull /\ ~list[i].is_successful
        THEN <<Row(originalUrl(i), Filename(originalUrl(i), i), FALSE,
                   errorMsg(list[i]))>>
        ELSE <<>>) \o FailedRows(list, i + 1)

\* zip.file(name, content)
ZipFile(z, name, content) ==
  [n \in DOMAIN z \cup {name} |-> IF n = name THEN content ELSE z[n]]

successCount(rs) == Cardinality({k \in 1..Len(rs) : rs[k].success})

ManifestRow(r) ==
  [ok |-> r.success, url |-> r.url,
   filename |-> IF r.success THEN r.filename ELSE <<>>,
   reason |-> IF r.success THEN "" ELSE r.error]

\* "X-Success-Rate": `${((successCount / results.length) * 100).toFixed(0)}%`,
\* by the two numbers that are divided
SuccessRate(rs) == [dividend |-> successCount(rs), divisor |-> Len(rs)]

\* Mutant: the total is the number of URLs submitted
manifestContentCountsUrls(rs, mode) ==
  [mode |-> mode,
   total |-> Len(req.body.urls),
   successful |-> successCount(rs),
   failed |-> Len(req.body.urls) - successCount(rs),
   wait_until |-> SPEED_CONFIGS(mode).wait_until,
   timeout |-> SPEED_CONFIGS(mode).timeout,
   block_scripts |-> SPEED_CONFIGS(mode).block_scripts,
   rows |-> [k \in 1..Len(rs) |-> ManifestRow(rs[k])]]

manifestContent(rs, mode) ==
  [mode |-> mode,
   total |-> Len(rs),
   successful |-> successCount(rs),
   failed |-> Len(rs) - successCount(rs),
   wait_until |-> SPEED_CONFIGS(mode).wait_until,
   timeout |-> SPEED_CONFIGS(mode).timeout,
   block_scripts |-> SPEED_CONFIGS(mode).block_scripts,
   rows |-> [k \in 1..Len(rs) |-> ManifestRow(rs[k])]]

NoManifest == manifestContent(<<>>, "")

ImageEntry(i) == [kind |-> "image", src |-> i, text |-> NoManifest]
ManifestEntry(m) == [kind |-> "manifest", src |-> 0, text |-> m]

----------------------------------------------------------------------------
(* The bulk-screenshot handler: serve(async (req) => ...) *)

BulkInit ==
  /\ pc = "idle"
  /\ req = NoRequest
  /\ speedMode = ""
  /\ cleanUrls = <<>>
  /\ vendorCalls = 0
  /\ downloadCalls = 0
  /\ bulkStatus = "none"
  /\ bulkData = NoBody
  /\ responses = <<>>
  /\ item = <<>>
  /\ dl = <<>>
  /\ results = <<>>
  /\ zip = EmptyZip
  /\ response = NoResponse

NamesIdle ==
  /\ fnPos = <<>>
  /\ fnUrls = <<>>
  /\ fnNames = <<>>

Return(r) ==
  /\ response' = r
  /\ pc' = "responded"

\* A request arrives: the handler runs to `await req.json()`
Receive(r) ==
  /\ pc = "idle"
  /\ req' = r
  /\ IF r.method = "OPTIONS" THEN Return(Resp(200, "text", "ok", <<>>, EmptyZip, ""))
     ELSE IF r.method # "POST" THEN Return(JsonError(405, "Method not allowed"))
     ELSE IF ~r.apiKey
          THEN Return(JsonError(500, "Screenshot service not configured"))
     ELSE pc' = "body" /\ response' = response
  /\ UNCHANGED <<bulkStatus, speedMode, cleanUrls, vendorCalls, downloadCalls, bulkData,
                 responses, item, dl, results, zip>>
  /\ UNCHANGED <<nameVars, singleVars, uiVars>>

\* req.json() settles: the checks, then the one call to the vendor
Submit ==
  /\ pc = "body"
  /\ IF Validate(req.body) # NoResponse
     THEN /\ Return(Validate(req.body))
          /\ UNCHANGED <<speedMode, cleanUrls, vendorCalls>>
     ELSE /\ cleanUrls' = [i \in 1..Len(req.body.urls) |->
                             sanitizeUrl(req.body.urls[i])]
          /\ speedMode' = SpeedModeOf(req.body.speed)
          /\ vendorCalls' = vendorCalls + 1
          /\ pc' = "bulk"
          /\ response' = response
  /\ UNCHANGED <<bulkStatus, req, downloadCalls, bulkData, responses, item, dl, results, zip>>
  /\ UNCHANGED <<nameVars, singleVars, uiVars>>

\* fetch(".../bulk") rejects: the handler's catch answers
BulkFetchThrows ==
  /\ pc = "bulk"
  /\ Return(JsonError(500, "Failed to process screenshots"))
  /\ UNCHANGED <<req, speedMode, cleanUrls, vendorCalls, downloadCalls, bulkData,
                 responses, item, dl, results, zip>>
  /\ bulkStatus' = "rejected"
  /\ UNCHANGED <<nameVars, singleVars, uiVars>>

\* fetch(".../bulk") resolves: !bulkResponse.ok reads the text, else the JSON
BulkFetchSettles(ok, body) ==
  /\ pc = "bulk"
  /\ IF ok THEN pc' = "bulk_json" /\ bulkData' = body
     ELSE pc' = "bulk_text" /\ bulkData' = bulkData
  /\ UNCHANGED <<req, speedMode, cleanUrls, vendorCalls, downloadCalls,
                 responses, item, dl, results, zip, response>>
  /\ bulkStatus' = IF ok THEN "2xx" ELSE "non-2xx"
  /\ UNCHANGED <<nameVars, singleVars, uiVars>>

\* bulkResponse.text() settles
VendorError ==
  /\ pc = "bulk_text"
  /\ Return(JsonError(500, "Failed to process screenshots"))
  /\ UNCHANGED <<bulkStatus, req, speedMode, cleanUrls, vendorCalls, downloadCalls, bulkData,
                 responses, item, dl, results, zip>>
  /\ UNCHANGED <<nameVars, singleVars, uiVars>>

ItemStart(it) ==
  IF it.isNull THEN "rejected"
  ELSE IF it.is_successful THEN "fetching" ELSE "failed"

\* bulkResponse.json() settles; responses.map starts every callback.  A
\* callback that throws before its first await leaves a rejected promise, and
\* `await Promise.all` then throws before any download can settle.
FanOut ==
  /\ pc = "bulk_json"
  /\ IF bulkData.json # "object" \/ bulkData.respKind = "notArray"
     THEN /\ Return(JsonError(500, "Failed to process screenshots"))
          /\ UNCHANGED <<responses, item, dl, results, downloadCalls>>
     ELSE /\ responses' = bulkData.list
          /\ item' = [i \in 1..Len(bulkData.list) |-> ItemStart(bulkData.list[i])]
          /\ dl' = [i \in 1..Len(bulkData.list) |-> "none"]
          /\ results' = FailedRows(bulkData.list, 1)
          /\ downloadCalls' =
               Cardinality({i \in 1..Len(bulkData.list) :
                              ItemStart(bulkData.list[i]) = "fetching"})
          /\ IF \E i \in 1..Len(bulkData.list) : bulkData.list[i].isNull
             THEN Return(JsonError(500, "Failed to process screenshots"))
             ELSE pc' = "awaiting" /\ response' = response
  /\ UNCHANGED <<bulkStatus, req, speedMode, cleanUrls, vendorCalls, bulkData, zip>>
  /\ UNCHANGED <<nameVars, singleVars, uiVars>>

Push(row) == results' = Append(results, row)

\* Mutant: the callback has no try/catch, so a throwing fetch rejects its
\* promise and with it Promise.all
FetchSettlesUncaught(i, o) ==
  /\ i \in DOMAIN item
  /\ item[i] = "fetching"
  /\ IF o = "ok"
     THEN /\ item' = [item EXCEPT ![i] = "reading"]
          /\ UNCHANGED <<dl, results, pc, response>>
     ELSE IF o = "http"
     THEN /\ item' = [item EXCEPT ![i] = "done"]
          /\ dl' = [dl EXCEPT ![i] = o]
          /\ Push(Row(originalUrl(i), Filename(originalUrl(i), i), FALSE, "HTTP 404"))
          /\ UNCHANGED <<pc, response>>
     ELSE /\ item' = [item EXCEPT ![i] = "rejected"]
          /\ dl' = [dl EXCEPT ![i] = o]
          /\ results' = results
          /\ IF pc = "awaiting"
             THEN Return(JsonError(500, "Failed to process screenshots"))
             ELSE UNCHANGED <<pc, response>>
  /\ UNCHANGED <<bulkStatus, req, speedMode, cleanUrls, vendorCalls, downloadCalls,
                 bulkData, responses, zip>>
  /\ UNCHANGED <<nameVars, singleVars, uiVars>>

\* fetch(item.url) settles for item i: a 2xx response, another status, or a throw
FetchSettles(i, o) ==
  /\ i \in DOMAIN item
  /\ item[i] = "fetching"
  /\ IF o = "ok"
     THEN /\ item' = [item EXCEPT ![i] = "reading"]
          /\ UNCHANGED <<dl, results>>
     ELSE /\ item' = [item EXCEPT ![i] = "done"]
          /\ dl' = [dl EXCEPT ![i] = o]
          /\ Push(Row(originalUrl(i), Filename(originalUrl(i), i), FALSE,
                      IF o = "http" THEN "HTTP 404" ELSE "TypeError: fetch failed"))
  /\ UNCHANGED <<bulkStatus, pc, req, speedMode, cleanUrls, vendorCalls, downloadCalls,
                 bulkData, responses, zip, response>>
  /\ UNCHANGED <<nameVars, singleVars, uiVars>>

\* imageResponse.arrayBuffer() settles for item i
ReadSettles(i, ok) ==
  /\ i \in DOMAIN item
  /\ item[i] = "reading"
  /\ item' = [item EXCEPT ![i] = "done"]
  /\ IF ok
     THEN /\ zip' = ZipFile(zip, Filename(originalUrl(i), i), ImageEntry(i))
          /\ dl' = [dl EXCEPT ![i] = "ok"]
          /\ Push(Row(originalUrl(i), Filename(originalUrl(i), i), TRUE, ""))
     ELSE /\ zip' = zip
          /\ dl' = [dl EXCEPT ![i] = "readexc"]
          /\ Push(Row(originalUrl(i), Filename(originalUrl(i), i), FALSE,
                      "TypeError: body stream error"))
  /\ UNCHANGED <<bulkStatus, pc, req, speedMode, cleanUrls, vendorCalls, downloadCalls,
                 bulkData, responses, response>>
  /\ UNCHANGED <<nameVars, singleVars, uiVars>>

\* Mutant: the handler goes on as soon as one callback has finished
AnySettled == \E i \in DOMAIN item : item[i] \in {"failed", "done"}

AllSettled == \A i \in DOMAIN item : item[i] \in {"failed", "done"}

\* Promise.all resolves: the manifest is built and added, the archive serialized
BuildArchive ==
  /\ pc = "awaiting"
  /\ AllSettled
  /\ zip' = ZipFile(zip, ManifestName,
                    ManifestEntry(manifestContent(results, speedMode)))
  /\ pc' = "zipping"
  /\ UNCHANGED <<bulkStatus, req, speedMode, cleanUrls, vendorCalls, downloadCalls, bulkData,
                 responses, item, dl, results, response>>
  /\ UNCHANGED <<nameVars, singleVars, uiVars>>

\* zip.generateAsync settles
Respond ==
  /\ pc = "zipping"
  /\ Return(Resp(200, "zip", "", <<>>, zip, speedMode))
  /\ UNCHANGED <<bulkStatus, req, speedMode, cleanUrls, vendorCalls, downloadCalls, bulkData,
                 responses, item, dl, results, zip>>
  /\ UNCHANGED <<nameVars, singleVars, uiVars>>

BulkNext ==
  \/ \E r \in Requests : Receive(r)
  \/ Submit
  \/ BulkFetchThrows
  \/ \E ok \in BOOLEAN, body \in VendorBodies : BulkFetchSettles(ok, body)
  \/ VendorError
  \/ FanOut
  \/ \E i \in 1..MaxLen, o \in {"ok", "http", "exc"} : FetchSettles(i, o)
  \/ \E i \in 1..MaxLen, ok \in BOOLEAN : ReadSettles(i, ok)
  \/ BuildArchive
  \/ Respond

----------------------------------------------------------------------------
(* The /screenshot handler (supabase/functions/screenshot/index.ts) *)

\* Deno.env.get("SCREENSHOTONE_API_KEY"): "" is an unset variable
Keys == {"", "key1", "key2"}

SingleUrls == {UA, UAq, UFtp, UBad}

\* What req.json() gives: it throws ("invalid"), gives null, or gives an
\* object whose url field is absent, not a string, or a string ("" included)
SBody(json, kind, url) == [json |-> json, urlKind |-> kind, url |-> url]

EmptyString == Url("", <<>>, <<>>)

SBodies ==
  {SBody(j, "absent", EmptyString) : j \in {"invalid", "null", "object"}}
  \cup {SBody("object", "number", EmptyString)}
  \cup {SBody("object", "string", u) : u \in SingleUrls \cup {EmptyString}}

SRequests ==
  [method : {"OPTIONS", "GET", "POST"}, apiKey : Keys, body : SBodies,
   from : {"direct"}]

NoSRequest ==
  [method |-> "", apiKey |-> "", body |-> SBody("invalid", "absent", EmptyString),
   from |-> ""]

\* `https://api.screenshotone.com/take?${params}`: the parameters that vary
TakeUrl(key, url) == [access_key |-> key, url |-> url]

NoTakeUrl == TakeUrl("", EmptyString)

SResp(status, kind, error, screenshotUrl) ==
  [status |-> status, kind |-> kind, error |-> error,
   screenshotUrl |-> screenshotUrl]

NoSResp == SResp(0, "none", "", NoTakeUrl)

\* The handler after `await req.json()`
SAnswer(r) ==
  CASE r.body.json = "invalid" \/ r.body.json = "null" ->
         SResp(500, "json", "Failed to generate screenshot", NoTakeUrl)
    [] r.body.urlKind # "string" \/ r.body.url = EmptyString ->
         SResp(400, "json", "URL is required", NoTakeUrl)
    [] ~isValidUrl(r.body.url) ->
         SResp(400, "json", "Invalid URL format", NoTakeUrl)
    [] OTHER -> SResp(200, "json", "", TakeUrl(r.apiKey, sanitizeUrl(r.body.url)))

\* A request arrives: the handler runs to `await req.json()`
SReceive(r) ==
  /\ spc = "idle"
  /\ sreq' = r
  /\ IF r.method = "OPTIONS"
     THEN sresp' = SResp(200, "text", "ok", NoTakeUrl) /\ spc' = "responded"
     ELSE IF r.method # "POST"
     THEN sresp' = SResp(405, "json", "Method not allowed", NoTakeUrl)
          /\ spc' = "responded"
     ELSE IF r.apiKey = ""
     THEN sresp' = SResp(500, "json", "Screenshot service not configured", NoTakeUrl)
          /\ spc' = "responded"
     ELSE sresp' = sresp /\ spc' = "body"

\* req.json() settles
SRespond ==
  /\ spc = "body"
  /\ sresp' = SAnswer(sreq)
  /\ spc' = "responded"
  /\ UNCHANGED sreq

----------------------------------------------------------------------------
(* generateScreenshot (src/lib/screenshot-api.ts) *)

Failure(error) == [success |-> FALSE, error |-> error, screenshotUrl |-> NoTakeUrl]
Success(shot) == [success |-> TRUE, error |-> "", screenshotUrl |-> shot]
NoResult == [success |-> FALSE, error |-> "", screenshotUrl |-> NoTakeUrl]

NotConfigured ==
  "Supabase is not configured. Please connect Supabase to enable screenshots."
NetworkError == "Network error. Please try again."
GenericError == "Failed to generate screenshot"

\* What fetch brought back: nothing (it rejected) or a response, by what the
\* caller reads of it: ok, whether the body parses as JSON, whether the parsed
\* value is null, and its error and screenshotUrl fields
Http(received, status, body, error, shot) ==
  [received |-> received, status |-> status, body |-> body, error |-> error,
   screenshotUrl |-> shot]

NoHttp == Http(FALSE, 0, "none", "", NoTakeUrl)

\* Answers that do not come from the handler but from the platform in front
\* of it: an HTML error page, a JSON error without an error field
GatewayAnswers ==
  {Http(TRUE, 502, "html", "", NoTakeUrl),
   Http(TRUE, 401, "json", "", NoTakeUrl)}

SingleIdle ==
  /\ cpc = "idle"
  /\ cfg = FALSE
  /\ curl = EmptyString
  /\ clientFetches = 0
  /\ http = NoHttp
  /\ spc = "idle"
  /\ sreq = NoSRequest
  /\ sresp = NoSResp
  /\ result = NoResult

\* generateScreenshot(url) is called: it runs to `await fetch(...)`.  Each
\* invocation of the edge function has its own state, so one is followed: the
\* one serving this call, or one serving another caller (Direct).
Generate(url, configured) ==
  /\ cpc = "idle"
  /\ spc = "idle"
  /\ cfg' = configured
  /\ curl' = url
  /\ IF ~configured
     THEN result' = Failure(NotConfigured) /\ cpc' = "done"
          /\ clientFetches' = clientFetches
     ELSE result' = result /\ cpc' = "fetching"
          /\ clientFetches' = clientFetches + 1
  /\ UNCHANGED <<http, spc, sreq, sresp>>
  /\ UNCHANGED <<bulkVars, nameVars, uiVars>>

\* The POST reaches the edge function
Deliver(key) ==
  /\ cpc = "fetching"
  /\ http = NoHttp
  /\ SReceive([method |-> "POST", apiKey |-> key,
               body |-> SBody("object", "string", curl), from |-> "client"])
  /\ UNCHANGED <<cpc, cfg, curl, clientFetches, http, result>>
  /\ UNCHANGED <<bulkVars, nameVars, uiVars>>

\* A request from another caller reaches the edge function
Direct(r) ==
  /\ cpc = "idle"
  /\ SReceive(r)
  /\ UNCHANGED <<cpc, cfg, curl, clientFetches, http, result>>
  /\ UNCHANGED <<bulkVars, nameVars, uiVars>>

HandlerResponds ==
  /\ SRespond
  /\ UNCHANGED <<cpc, cfg, curl, clientFetches, http, result>>
  /\ UNCHANGED <<bulkVars, nameVars, uiVars>>

\* fetch resolves with the handler's response
FetchResolves ==
  /\ cpc = "fetching"
  /\ spc = "responded"
  /\ sreq.from = "client"
  /\ http' = Http(TRUE, sresp.status, "json", sresp.error, sresp.screenshotUrl)
  /\ cpc' = "reading"
  /\ UNCHANGED <<cfg, curl, clientFetches, spc, sreq, sresp, result>>
  /\ UNCHANGED <<bulkVars, nameVars, uiVars>>

\* fetch resolves with an answer of the platform; the handler never ran
FetchGateway(h) ==
  /\ cpc = "fetching"
  /\ spc = "idle"
  /\ http' = h
  /\ cpc' = "reading"
  /\ UNCHANGED <<cfg, curl, clientFetches, spc, sreq, sresp, result>>
  /\ UNCHANGED <<bulkVars, nameVars, uiVars>>

\* fetch rejects: no response was received
FetchRejects ==
  /\ cpc = "fetching"
  /\ result' = Failure(NetworkError)
  /\ cpc' = "done"
  /\ UNCHANGED <<cfg, curl, clientFetches, http, spc, sreq, sresp>>
  /\ UNCHANGED <<bulkVars, nameVars, uiVars>>

\* Mutant: response.json() and the reads of its value are outside the try, so
\* a throw rejects the promise of generateScreenshot
ReadUncaught ==
  /\ cpc = "reading"
  /\ IF http.body = "html" \/ http.body = "null"
     THEN result' = result /\ cpc' = "rejected"
     ELSE /\ result' =
               IF http.status < 200 \/ http.status > 299
               THEN Failure(IF http.error = "" THEN GenericError ELSE http.error)
               ELSE Success(http.screenshotUrl)
          /\ cpc' = "done"
  /\ UNCHANGED <<cfg, curl, clientFetches, http, spc, sreq, sresp>>
  /\ UNCHANGED <<bulkVars, nameVars, uiVars>>

\* response.json() settles and the result is built; a throw in between
\* (the body is not JSON, or a field of null is read) lands in the catch
Read ==
  /\ cpc = "reading"
  /\ result' =
       IF http.body = "html" \/ http.body = "null" THEN Failure(NetworkError)
       ELSE IF http.status < 200 \/ http.status > 299
       THEN Failure(IF http.error = "" THEN GenericError ELSE http.error)
       ELSE Success(http.screenshotUrl)
  /\ cpc' = "done"
  /\ UNCHANGED <<cfg, curl, clientFetches, http, spc, sreq, sresp>>
  /\ UNCHANGED <<bulkVars, nameVars, uiVars>>

SingleNext ==
  \/ \E u \in SingleUrls, c \in BOOLEAN : Generate(u, c)
  \/ \E k \in Keys : Deliver(k)
  \/ \E r \in SRequests : Direct(r)
  \/ HandlerResponds
  \/ FetchResolves
  \/ \E h \in GatewayAnswers : FetchGateway(h)
  \/ FetchRejects
  \/ Read

----------------------------------------------------------------------------
(* Archive file names, for two positions of one batch *)

PairUrls == {UA, UAq, ULongB, ULongC, UDigit, Url("http:", <<"a", "/">>, <<>>)}

NamesInit ==
  /\ fnPos \in {p \in (1..MaxBatch) \X (1..MaxBatch) : p[1] < p[2]}
  /\ fnUrls \in PairUrls \X PairUrls
  /\ fnNames = <<>>

\* const filename = `${sanitizeFilename(originalUrl)}_${index + 1}.png`
ComputeNames ==
  /\ fnNames = <<>>
  /\ fnNames' = <<Filename(fnUrls[1], fnPos[1]), Filename(fnUrls[2], fnPos[2])>>
  /\ UNCHANGED <<fnPos, fnUrls>>
  /\ UNCHANGED <<bulkVars, singleVars, uiVars>>

----------------------------------------------------------------------------
(* useScreenshots (src/hooks/useScreenshots.ts) *)

\* Ids are Math.random().toString(36).substring(2, 9): seven random base-36
\* digits.  They are modelled as never repeating: the id of an item is its
\* position in tasks, the id of a toast its position in toastLog.

ProcessingItem(id, url, progress, status) ==
  [id |-> id, url |-> url, progress |-> progress, status |-> status]

\* A Screenshot record, by the fields that vary: id, url, status, fullImageUrl
ScreenshotOf(id, url, status, shot) ==
  [id |-> id, url |-> url, status |-> status, fullImageUrl |-> shot]

\* One callback of processingItems.map: the submission it belongs to, its
\* item, where it stands ("call": awaiting generateScreenshot, "delay":
\* awaiting the 200 ms timeout, "done") and the result it was given
Task(sub, url, at, res) == [sub |-> sub, url |-> url, at |-> at, result |-> res]

\* What generateScreenshot resolves with
Results == {Success(TakeUrl("key1", UA)), Failure(NetworkError)}

\* The urls argument of generateScreenshots, for any caller of the hook
HookUrls == {UA, UFtp}
Submissions == SeqsUpTo(HookUrls, MaxLen)

\* Submissions made so far
NumSubs == IF tasks = <<>> THEN 0 ELSE tasks[Len(tasks)].sub

\* The ids of the items of submission k
ItemsOf(k) == {i \in 1..Len(tasks) : tasks[i].sub = k}

HookIdle ==
  /\ isLoading = FALSE
  /\ processingQueue = <<>>
  /\ screenshots = <<>>
  /\ toasts = <<>>
  /\ timers = {}
  /\ tasks = <<>>
  /\ toastLog = <<>>

\* prev.filter((x) => x.id !== id)
WithoutId(list, id) ==
  SelectSeqP(list, {x \in Range(list) : x.id # id}, 1)

\* addToast(type, message): the toast is appended and its timeout started
addToast(type, message, about) ==
  LET id == Len(toastLog) + 1
  IN /\ toasts' = Append(toasts, [id |-> id, type |-> type, message |-> message])
     /\ timers' = timers \cup {id}
     /\ toastLog' = Append(toastLog, [id |-> id, type |-> type,
                                      message |-> message, item |-> about])

\* generateScreenshots(urls), up to its awaits: the queue is replaced by the
\* new items at progress 10, each callback of map raises its item to 30 and
\* calls generateScreenshot.  With no url, Promise.all([]) resolves in the
\* same task and isLoading is false again when the task ends.
generateScreenshots(urls) ==
  /\ Len(tasks) + Len(urls) <= MaxTasks
  /\ LET n == Len(tasks)
         processingItems == [j \in 1..Len(urls) |->
                               ProcessingItem(n + j, urls[j], 0, "pending")]
         initial == [j \in 1..Len(urls) |->
                       [processingItems[j] EXCEPT !.progress = 10,
                                                  !.status = "processing"]]
         started == [j \in 1..Len(urls) |->
                       [initial[j] EXCEPT !.progress = 30,
                                          !.status = "processing"]]
     IN /\ isLoading' = (urls # <<>>)
        /\ processingQueue' = started
        /\ tasks' = tasks \o [j \in 1..Len(urls) |->
                                Task(NumSubs + 1, urls[j], "call", NoResult)]
  /\ UNCHANGED <<screenshots, toasts, timers, toastLog>>
  /\ UNCHANGED <<bulkVars, nameVars, singleVars, csvVars, parseVars, validVars>>

\* Mutant: only an entry whose call succeeded goes to 90
CallSettlesOnlySuccess(id, r) ==
  /\ id \in DOMAIN tasks
  /\ tasks[id].at = "call"
  /\ tasks' = [tasks EXCEPT ![id].at = "delay", ![id].result = r]
  /\ processingQueue' =
       [k \in 1..Len(processingQueue) |->
          IF processingQueue[k].id = id /\ r.success
          THEN [processingQueue[k] EXCEPT !.progress = 90]
          ELSE processingQueue[k]]
  /\ UNCHANGED <<isLoading, screenshots, toasts, timers, toastLog>>
  /\ UNCHANGED <<bulkVars, nameVars, singleVars, csvVars, parseVars, validVars>>

\* generateScreenshot settles for item id: its entry goes to 90 and the
\* callback waits 200 ms
CallSettles(id, r) ==
  /\ id \in DOMAIN tasks
  /\ tasks[id].at = "call"
  /\ tasks' = [tasks EXCEPT ![id].at = "delay", ![id].result = r]
  /\ processingQueue' =
       [k \in 1..Len(processingQueue) |->
          IF processingQueue[k].id = id
          THEN [processingQueue[k] EXCEPT !.progress = 90]
          ELSE processingQueue[k]]
  /\ UNCHANGED <<isLoading, screenshots, toasts, timers, toastLog>>
  /\ UNCHANGED <<bulkVars, nameVars, singleVars, csvVars, parseVars, validVars>>

\* The callback of item id after the 200 ms: the screenshot record is
\* prepended and the toast added, by result.success
Record(id) ==
  /\ id \in DOMAIN tasks
  /\ tasks[id].at = "delay"
  /\ tasks' = [tasks EXCEPT ![id].at = "done"]
  /\ IF tasks[id].result.success
     THEN /\ screenshots' = <<ScreenshotOf(id, tasks[id].url, "completed",
                                           tasks[id].result.screenshotUrl)>>
                              \o screenshots
          /\ addToast("success", "Screenshot captured", id)
     ELSE /\ screenshots' = <<ScreenshotOf(id, tasks[id].url, "error",
                                           NoTakeUrl)>>
                              \o screenshots
          /\ addToast("error", tasks[id].result.error, id)

\* await Promise.all(promises); setIsLoading(false): runs when the last
\* callback of the submission of item id has finished
LoadingAfter(id) ==
  IF \A i \in ItemsOf(tasks[id].sub) : tasks'[i].at = "done"
  THEN FALSE ELSE isLoading

\* Mutant: the callback that finishes clears isLoading itself
DelayElapsesClearsLoading(id) ==
  /\ Record(id)
  /\ processingQueue' = WithoutId(processingQueue, id)
  /\ isLoading' = FALSE
  /\ UNCHANGED <<bulkVars, nameVars, singleVars, csvVars, parseVars, validVars>>

\* Mutant: the entry is removed by its url
DelayElapsesRemovesByUrl(id) ==
  /\ Record(id)
  /\ processingQueue' =
       SelectSeqP(processingQueue,
                  {x \in Range(processingQueue) : x.url # tasks[id].url}, 1)
  /\ isLoading' = LoadingAfter(id)
  /\ UNCHANGED <<bulkVars, nameVars, singleVars, csvVars, parseVars, validVars>>

\* The 200 ms timeout of item id fires: the entry leaves the queue, the
\* screenshot record is prepended and the toast added.  When this was the last
\* callback of its submission, Promise.all resolves and isLoading is cleared
\* before any other task runs.
DelayElapses(id) ==
  /\ Record(id)
  /\ processingQueue' = WithoutId(processingQueue, id)
  /\ isLoading' = LoadingAfter(id)
  /\ UNCHANGED <<bulkVars, nameVars, singleVars, csvVars, parseVars, validVars>>

\* Mutant: the timeout removes the oldest toast shown
ToastExpiresRemovesOldest(id) ==
  /\ id \in timers
  /\ \A t \in timers : id <= t
  /\ toasts' = IF toasts = <<>> THEN toasts ELSE Tail(toasts)
  /\ timers' = timers \ {id}
  /\ UNCHANGED <<isLoading, processingQueue, screenshots, tasks, toastLog>>
  /\ UNCHANGED <<bulkVars, nameVars, singleVars, csvVars, parseVars, validVars>>

\* The 5-second timeout of toast id fires; timeouts of one length fire in the
\* order they were set
ToastExpires(id) ==
  /\ id \in timers
  /\ \A t \in timers : id <= t
  /\ toasts' = WithoutId(toasts, id)
  /\ timers' = timers \ {id}
  /\ UNCHANGED <<isLoading, processingQueue, screenshots, tasks, toastLog>>
  /\ UNCHANGED <<bulkVars, nameVars, singleVars, csvVars, parseVars, validVars>>

\* dismissToast(id): the user dismisses a toast that is shown
dismissToast(id) ==
  /\ \E k \in 1..Len(toasts) : toasts[k].id = id
  /\ toasts' = WithoutId(toasts, id)
  /\ UNCHANGED <<isLoading, processingQueue, screenshots, timers, tasks, toastLog>>
  /\ UNCHANGED <<bulkVars, nameVars, singleVars, csvVars, parseVars, validVars>>

\* The steps of the hook that follow a submission
HookSteps ==
  \/ \E id \in 1..MaxTasks, r \in Results : CallSettles(id, r)
  \/ \E id \in 1..MaxTasks : DelayElapses(id)
  \/ \E id \in 1..MaxTasks : ToastExpires(id)
  \/ \E id \in 1..MaxTasks : dismissToast(id)

\* Home: handleGenerate.  The Generate control and the keyboard shortcut act
\* only while isLoading is false and every line of the text is a valid URL,
\* and handleGenerate submits only a non-empty list.
handleGenerate(urls) ==
  /\ ~isLoading
  /\ Len(urls) > 0
  /\ \A j \in 1..Len(urls) : isValidUrl(urls[j])
  /\ generateScreenshots(urls)

HomeNext ==
  \/ \E urls \in Submissions : handleGenerate(urls)
  \/ HookSteps

\* The hook with any caller: generateScreenshots may be called at any time
HookNext ==
  \/ \E urls \in Submissions : generateScreenshots(urls)
  \/ HookSteps

----------------------------------------------------------------------------
(* CsvUpload, parseCSVForUrls and the copies of isValidUrl: nothing running *)

\* A File of the browser: its name (stem and extension), whether text() can
\* read it, and the number of URL lines of its content
File(name, ok, lines) == [name |-> name, ok |-> ok, lines |-> lines]
NoFile == File(<<>>, FALSE, 0)

\* The error shown: its text and, for the message that counts, the number
\* found and the maximum it names
ErrorMsg(text, found, max) == [text |-> text, found |-> found, max |-> max]
NoError == ErrorMsg("", 0, 0)

CsvIdle ==
  /\ file = NoFile
  /\ csvUrls = <<>>
  /\ csvError = NoError
  /\ reads = {}
  /\ zipCall = ""

ParseIdle ==
  /\ csvContent = <<>>
  /\ parsed = <<>>

ValidIdle ==
  /\ vIn = <<>>
  /\ vOut = <<>>

----------------------------------------------------------------------------
(* The copies of isValidUrl.  isValidUrl above is the copy of the           *)
(* bulk-screenshot handler; like it, each takes what new URL made of the     *)
(* string, scheme "" standing for the throw that the catch answers.          *)

\* useUrlValidation.ts
isValidUrl_hook(url) ==
  IF url.scheme = "" THEN FALSE
  ELSE url.scheme = "http:" \/ url.scheme = "https:"

\* Mutant: the protocol is not looked at
isValidUrlAnyScheme(url) == url.scheme # ""

\* screenshot-api.ts
isValidUrl_lib(url) ==
  IF url.scheme = "" THEN FALSE
  ELSE url.scheme = "http:" \/ url.scheme = "https:"

\* screenshot/index.ts
isValidUrl_screenshot(url) ==
  IF url.scheme = "" THEN FALSE
  ELSE url.scheme = "http:" \/ url.scheme = "https:"

\* The strings the copies are given
ValidSymbols == {"http", "https", "HTTP", "ftp", "javascript", "a", ":", "/", " "}
ValidInputs == SeqsUpTo(ValidSymbols, MaxChars)

ValidInit ==
  /\ vIn \in ValidInputs
  /\ vOut = <<>>

\* Each copy is called with the string
CheckUrl ==
  /\ vOut = <<>>
  /\ vOut' = <<isValidUrl_hook(NewURL(vIn)), isValidUrl_lib(NewURL(vIn)),
               isValidUrl_screenshot(NewURL(vIn)), isValidUrl(NewURL(vIn))>>
  /\ UNCHANGED vIn
  /\ UNCHANGED <<bulkVars, nameVars, singleVars, hookVars, csvVars, parseVars>>

----------------------------------------------------------------------------
(* parseCSVForUrls (src/lib/screenshot-api.ts) *)

RECURSIVE SplitOn(_, _)
\* s.split(sep), for a separator of one symbol
SplitOn(s, sep) ==
  IF sep \notin Range(s) THEN <<s>>
  ELSE <<Before(s, {sep})>> \o SplitOn(After(s, {sep}), sep)

\* csvContent.split(/\r?\n/): a carriage return right before the line feed
\* belongs to the separator
SplitLines(s) ==
  LET pieces == SplitOn(s, "\n")
  IN [i \in 1..Len(pieces) |->
        IF i < Len(pieces) /\ pieces[i] # <<>>
           /\ pieces[i][Len(pieces[i])] = "\r"
        THEN SubSeq(pieces[i], 1, Len(pieces[i]) - 1)
        ELSE pieces[i]]

\* cell.replace(/^["']|["']$/g, ""): a quote at the start and a quote at the
\* end are removed
Unquote(cell) ==
  LET tail == IF cell # <<>> /\ cell[1] \in Quotes
              THEN SubSeq(cell, 2, Len(cell)) ELSE cell
  IN IF tail # <<>> /\ tail[Len(tail)] \in Quotes
     THEN SubSeq(tail, 1, Len(tail) - 1) ELSE tail

\* The urls pushed for one line
LineUrls(line) ==
  LET trimmedLine == Trim(line)
      split == SplitOn(trimmedLine, ",")
      cells == [i \in 1..Len(split) |-> Unquote(Trim(split[i]))]
  IN IF trimmedLine = <<>> THEN <<>>
     ELSE SelectSeqP(cells, {c \in Range(cells) : isValidUrl_lib(NewURL(c))}, 1)

RECURSIVE Concat(_)
Concat(lists) ==
  IF lists = <<>> THEN <<>> ELSE lists[1] \o Concat(Tail(lists))

RECURSIVE Unique(_)
\* [...new Set(urls)]: the first occurrence of each value, in order
Unique(s) ==
  IF s = <<>> THEN <<>>
  ELSE LET front == Unique(SubSeq(s, 1, Len(s) - 1))
       IN IF s[Len(s)] \in Range(front) THEN front
          ELSE Append(front, s[Len(s)])

\* Mutant: the duplicates are kept
parseCSVKeepsDuplicates(content) ==
  LET lines == SplitLines(content)
  IN Concat([i \in 1..Len(lines) |-> LineUrls(lines[i])])

parseCSVForUrls(content) ==
  LET lines == SplitLines(content)
  IN Unique(Concat([i \in 1..Len(lines) |-> LineUrls(lines[i])]))

\* The texts parseCSVForUrls is given: up to MaxPieces pieces, each a URL
\* ("http:a/", "https:a/"), a letter or one of the characters the function
\* looks at
CsvPieces ==
  {<<"http", ":", "a", "/">>, <<"https", ":", "a", "/">>, <<"a">>, <<",">>,
   <<"\n">>, <<"\r">>, <<" ">>, <<"\"">>}
CsvTexts == {Concat(p) : p \in SeqsUpTo(CsvPieces, MaxPieces)}

ParseInit ==
  /\ csvContent \in CsvTexts
  /\ parsed = <<>>

\* parseCSVForUrls(csvContent) is called; parsed holds the list it returned
ParseCsv ==
  /\ parsed = <<>>
  /\ parsed' = <<parseCSVForUrls(csvContent)>>
  /\ UNCHANGED csvContent
  /\ UNCHANGED <<bulkVars, nameVars, singleVars, hookVars, csvVars, validVars>>

----------------------------------------------------------------------------
(* CsvUpload (the component) and generateBulkScreenshotsZip *)

\* The i-th URL of a content: "http:" and i letters
UrlNo(i) == <<"http", ":">> \o [j \in 1..i |-> "a"]

\* A content of one column: a header line and n lines, each a different URL
Column(n) == <<"a", "\n">> \o Concat([i \in 1..n |-> UrlNo(i) \o <<"\n">>])

\* The files that can be selected: one not named .csv, one named .CSV, and
\* .csv files of no URL, of a few, of exactly the maximum and of more; one
\* .csv file cannot be read
FileSizes == {0, 2, MaxUpload, MaxUpload + 1, MaxUpload + 2}
Files ==
  {File(<<"notes", ".txt">>, TRUE, 2), File(<<"urls", ".CSV">>, TRUE, 2),
   File(<<"urls", ".csv">>, FALSE, 2)}
  \cup {File(<<"urls", ".csv">>, TRUE, n) : n \in FileSizes}

\* parseCSVForUrls(await selectedFile.text()) for the content of each size
Extracted == [n \in FileSizes \cup {2} |-> parseCSVForUrls(Column(n))]

\* selectedFile.name.endsWith(".csv")
EndsWithCsv(name) == name # <<>> /\ name[Len(name)] = ".csv"

\* Mutant: a name that does not end in .csv empties the list too
handleFileSelectEmptiesList(selectedFile) ==
  /\ Cardinality(reads) < MaxReads
  /\ file' = selectedFile
  /\ IF ~EndsWithCsv(selectedFile.name)
     THEN /\ csvError' = ErrorMsg("Please upload a CSV file", 0, 0)
          /\ csvUrls' = <<>>
          /\ UNCHANGED reads
     ELSE /\ csvError' = NoError
          /\ UNCHANGED csvUrls
          /\ reads' = reads \cup
               {[id |-> Least((1..MaxReads) \ {r.id : r \in reads}),
                 f |-> selectedFile]}
  /\ UNCHANGED zipCall
  /\ UNCHANGED <<bulkVars, nameVars, singleVars, hookVars, parseVars, validVars>>

\* handleFileSelect up to its await: the error is cleared and the file held;
\* a name that does not end in .csv sets the error and returns, any other
\* starts the read of the file
handleFileSelect(selectedFile) ==
  /\ Cardinality(reads) < MaxReads
  /\ file' = selectedFile
  /\ IF ~EndsWithCsv(selectedFile.name)
     THEN /\ csvError' = ErrorMsg("Please upload a CSV file", 0, 0)
          /\ UNCHANGED reads
     ELSE /\ csvError' = NoError
          /\ reads' = reads \cup
               {[id |-> Least((1..MaxReads) \ {r.id : r \in reads}),
                 f |-> selectedFile]}
  /\ UNCHANGED <<csvUrls, zipCall>>
  /\ UNCHANGED <<bulkVars, nameVars, singleVars, hookVars, parseVars, validVars>>

\* Mutant: the list is not cut to the maximum
UrlsKeptWhole(extractedUrls) == extractedUrls

\* setUrls after the read: extractedUrls.slice(0, 20) when there are more
UrlsKept(extractedUrls) ==
  IF Len(extractedUrls) > MaxUpload
  THEN SubSeq(extractedUrls, 1, MaxUpload) ELSE extractedUrls

\* handleFileSelect after its await: selectedFile.text() of r settled
TextSettles(r) ==
  /\ r \in reads
  /\ reads' = reads \ {r}
  /\ IF ~r.f.ok
     THEN /\ csvError' = ErrorMsg("Failed to read CSV file", 0, 0)
          /\ UNCHANGED csvUrls
     ELSE LET extractedUrls == Extracted[r.f.lines]
          IN IF Len(extractedUrls) = 0
             THEN /\ csvError' =
                       ErrorMsg("No valid URLs found in the CSV file", 0, 0)
                  /\ csvUrls' = <<>>
             ELSE /\ csvUrls' = UrlsKept(extractedUrls)
                  /\ csvError' =
                       IF Len(extractedUrls) > MaxUpload
                       THEN ErrorMsg("Found URLs. Maximum allowed per request.",
                                     Len(extractedUrls), MaxUpload)
                       ELSE csvError
  /\ UNCHANGED <<file, zipCall>>
  /\ UNCHANGED <<bulkVars, nameVars, singleVars, hookVars, parseVars, validVars>>

clearFile ==
  /\ file' = NoFile
  /\ csvUrls' = <<>>
  /\ csvError' = NoError
  /\ UNCHANGED <<reads, zipCall>>
  /\ UNCHANGED <<bulkVars, nameVars, singleVars, hookVars, parseVars, validVars>>

\* generateBulkScreenshotsZip up to its fetch: what the call comes to
BulkZipOutcome(urls, configured) ==
  IF ~configured THEN "config"
  ELSE IF Len(urls) = 0 THEN "empty"
  ELSE IF Len(urls) > MaxPerRequest THEN "capacity"
  ELSE "sent"

\* handleGenerateZip up to its await; the button is disabled while a call
\* is processed
handleGenerateZip(configured) ==
  /\ zipCall = ""
  /\ Len(csvUrls) # 0
  /\ zipCall' = BulkZipOutcome(csvUrls, configured)
  /\ csvError' = NoError
  /\ UNCHANGED <<file, csvUrls, reads>>
  /\ UNCHANGED <<bulkVars, nameVars, singleVars, hookVars, parseVars, validVars>>

\* handleGenerateZip after its await: the archive is downloaded, or the error
\* of the result is shown
ZipSettles(success) ==
  /\ zipCall # ""
  /\ success => zipCall = "sent"
  /\ zipCall' = ""
  /\ csvError' =
       IF success THEN csvError
       ELSE IF zipCall = "config" THEN ErrorMsg(NotConfigured, 0, 0)
       ELSE IF zipCall = "empty" THEN ErrorMsg("No valid URLs provided", 0, 0)
       ELSE IF zipCall = "capacity"
       THEN ErrorMsg("Maximum 20 URLs allowed per request", 0, MaxPerRequest)
       ELSE ErrorMsg("Failed to generate screenshots", 0, 0)
  /\ UNCHANGED <<file, csvUrls, reads>>
  /\ UNCHANGED <<bulkVars, nameVars, singleVars, hookVars, parseVars, validVars>>

CsvNext ==
  \/ \E f \in Files : handleFileSelect(f)
  \/ \E r \in reads : TextSettles(r)
  \/ clearFile
  \/ \E configured \in BOOLEAN : handleGenerateZip(configured)
  \/ \E success \in BOOLEAN : ZipSettles(success)

----------------------------------------------------------------------------
(* Specifications *)

\* The bulk-screenshot handler serving one request
Init == BulkInit /\ NamesIdle /\ SingleIdle /\ HookIdle /\ CsvIdle /\ ParseIdle
          /\ ValidIdle
Next == BulkNext
Spec == Init /\ [][Next]_vars

\* One generateScreenshot call and the /screenshot handler
SpecSingle == Init /\ [][SingleNext]_vars

\* The file names of two positions of a batch
NamesStart == BulkInit /\ NamesInit /\ SingleIdle /\ HookIdle /\ CsvIdle
                /\ ParseIdle /\ ValidIdle
SpecNames == NamesStart /\ [][ComputeNames]_vars

\* The copies of isValidUrl applied to one string
ValidStart == BulkInit /\ NamesIdle /\ SingleIdle /\ HookIdle /\ CsvIdle
                /\ ParseIdle /\ ValidInit
SpecValid == ValidStart /\ [][CheckUrl]_vars

\* parseCSVForUrls applied to one text
ParseStart == BulkInit /\ NamesIdle /\ SingleIdle /\ HookIdle /\ CsvIdle
                /\ ParseInit /\ ValidIdle
SpecParse == ParseStart /\ [][ParseCsv]_vars

\* The bulk-screenshot handler up to its call of the vendor, for requests
\* whose URLs carry query strings
CleanNext ==
  \/ \E r \in CleanRequests : Receive(r)
  \/ Submit
SpecClean == Init /\ [][CleanNext]_vars

\* CsvUpload: files are selected and cleared, archives are asked for
SpecCsv == Init /\ [][CsvNext]_vars

\* useScreenshots called by Home
SpecHome == Init /\ [][HomeNext]_vars

\* useScreenshots called by any caller
SpecHook == Init /\ [][HookNext]_vars

\* useScreenshots called by Home, with the timeouts the callbacks wait for
\* firing: a 200 ms timeout that was set does fire
FairSpecHome ==
  SpecHome /\ \A id \in 1..MaxTasks : WF_vars(DelayElapses(id))

\* The same, with every 5-second timeout that was set firing in the end
FairSpecToasts ==
  SpecHome /\ \A id \in 1..MaxTasks : WF_vars(ToastExpires(id))

----------------------------------------------------------------------------
(* Properties of the bulk-screenshot handler *)

\* The handler answered 200 with the archive
Archived == pc = "responded" /\ response.status = 200 /\ response.kind = "zip"

\* The manifest of the archive that was returned
Manifest == response.archive[ManifestName].text

\* The vendor returned one record per submitted URL
Aligned == Len(responses) = Len(req.body.urls)

\* The rows of results written for position i
RowsOf(i) ==
  {k \in 1..Len(results) : results[k].filename = Filename(originalUrl(i), i)}

ImageNames(archive) == {n \in DOMAIN archive : archive[n].kind = "image"}

\* The request fails one of the checks made before the vendor call: missing
\* credential, empty or non-array urls, more than 20 urls, an invalid URL
Step1Fails ==
  /\ req.method = "POST"
  /\ \/ ~req.apiKey
     \/ /\ req.body.json = "object"
        /\ \/ req.body.urlsKind # "array"
           \/ Len(req.body.urls) = 0
           \/ Len(req.body.urls) > MaxBatch
           \/ \E i \in 1..Len(req.body.urls) : ~isValidUrl(req.body.urls[i])

\* The request passes them: a POST with the credential and 1 to 20 valid URLs
Step1Passes ==
  /\ req.method = "POST"
  /\ req.apiKey
  /\ req.body.json = "object"
  /\ req.body.urlsKind = "array"
  /\ Len(req.body.urls) \in 1..MaxBatch
  /\ \A i \in 1..Len(req.body.urls) : isValidUrl(req.body.urls[i])

\* C1 (as claimed): in every archive returned for a batch the vendor answered
\* record by record, the k-th result row of manifest.txt is the row of the
\* k-th submitted URL, whatever the vendor reported and whatever order the
\* downloads settled in.
C1_ManifestInSubmissionOrder ==
  (Archived /\ Aligned) =>
    /\ Len(Manifest.rows) = Len(req.body.urls)
    /\ \A k \in 1..Len(Manifest.rows) : Manifest.rows[k].url = req.body.urls[k]

\* C2 (as claimed): at most one vendor call per request, none (and no image
\* download) when a step-1 check fails, and exactly one whenever the handler
\* returns 200.
C2_OneCallWhenever200 ==
  /\ vendorCalls <= 1
  /\ (pc # "idle" /\ Step1Fails) => (vendorCalls = 0 /\ downloadCalls = 0)
  /\ (pc = "responded" /\ response.status = 200) => vendorCalls = 1

\* C2 (amended): at most one vendor call per request, none (and no image
\* download) when a step-1 check fails, and exactly one whenever the handler
\* returns 200 to a POST; the OPTIONS preflight is answered 200 with no call.
C2_VendorCalls ==
  /\ vendorCalls <= 1
  /\ (pc # "idle" /\ Step1Fails) => (vendorCalls = 0 /\ downloadCalls = 0)
  /\ (pc = "responded" /\ response.status = 200 /\ req.method = "POST")
       => vendorCalls = 1
  /\ (pc = "responded" /\ req.method = "OPTIONS")
       => (response.status = 200 /\ vendorCalls = 0)

\* A POST was answered 200 after its one vendor call and its downloads
C2_Witness ==
  /\ Archived
  /\ req.method = "POST"
  /\ vendorCalls = 1
  /\ downloadCalls = 2

\* The position of the k-th URL of urls that fails the validator
KthInvalid(urls, k) ==
  CHOOSE p \in 1..Len(urls) :
    /\ ~isValidUrl(urls[p])
    /\ Cardinality({q \in 1..(p - 1) : ~isValidUrl(urls[q])}) = k - 1

\* C3: a POST with the credential and 1 to 20 URLs of which at least one fails
\* the validator is answered 400 with a JSON error and no archive, and the
\* error names exactly the URLs that fail the validator, in submission order.
C3_InvalidUrlsNamed ==
  ( /\ pc = "responded"
    /\ req.method = "POST"
    /\ req.apiKey
    /\ req.body.json = "object"
    /\ req.body.urlsKind = "array"
    /\ Len(req.body.urls) \in 1..MaxBatch
    /\ \E i \in 1..Len(req.body.urls) : ~isValidUrl(req.body.urls[i]) )
  =>
    LET urls == req.body.urls
        bad == {i \in 1..Len(urls) : ~isValidUrl(urls[i])}
    IN /\ response.status = 400
       /\ response.kind = "json"
       /\ response.error = "Invalid URLs"
       /\ response.archive = EmptyZip
       /\ vendorCalls = 0
       /\ Len(response.names) = Cardinality(bad)
       /\ \A k \in 1..Len(response.names) :
            response.names[k] = urls[KthInvalid(urls, k)]

\* A batch of two different invalid URLs was rejected, both named in order
C3_Witness ==
  /\ pc = "responded"
  /\ req.method = "POST"
  /\ req.apiKey
  /\ req.body.urlsKind = "array"
  /\ Len(req.body.urls) = 2
  /\ response.status = 400
  /\ response.names = <<UBad, UFtp>>

\* The row of position i agrees with the manifest and the archive: a success
\* row carries the file name of an image entry, a failure row a non-empty
\* reason and no image entry
RowConsistent(i) ==
  \A k \in RowsOf(i) :
    /\ Manifest.rows[k].url = req.body.urls[i]
    /\ Manifest.rows[k].ok = results[k].success
    /\ results[k].success =>
         /\ Manifest.rows[k].filename = Filename(req.body.urls[i], i)
         /\ Filename(req.body.urls[i], i) \in ImageNames(response.archive)
         /\ response.archive[Filename(req.body.urls[i], i)].src = i
    /\ ~results[k].success =>
         /\ Manifest.rows[k].reason # ""
         /\ Filename(req.body.urls[i], i) \notin DOMAIN response.archive

\* C4 (as claimed): with one vendor record per submitted URL, the manifest
\* has exactly one row per URL, and the row is a success row (with an image
\* entry under its file name) exactly when the vendor marked the item
\* successful and its image download returned 2xx; every other URL has a
\* FAILED row with a non-empty reason and no image entry.
C4_SuccessIffVendorOkAnd2xx ==
  (Archived /\ Aligned) =>
    /\ Len(Manifest.rows) = Len(req.body.urls)
    /\ \A i \in 1..Len(req.body.urls) :
         /\ Cardinality(RowsOf(i)) = 1
         /\ RowConsistent(i)
         /\ \A k \in RowsOf(i) :
              results[k].success <=>
                (responses[i].is_successful /\ dl[i] \in {"ok", "readexc"})

\* C4 (amended): as claimed, except that the row is a success row exactly when
\* the vendor marked the item successful, its image download returned 2xx and
\* the image bytes were read; an item whose bytes cannot be read after a 2xx
\* response has a FAILED row too.
C4_SuccessIffDownloaded ==
  (Archived /\ Aligned) =>
    /\ Len(Manifest.rows) = Len(req.body.urls)
    /\ \A i \in 1..Len(req.body.urls) :
         /\ Cardinality(RowsOf(i)) = 1
         /\ RowConsistent(i)
         /\ \A k \in RowsOf(i) :
              results[k].success <=>
                (responses[i].is_successful /\ dl[i] = "ok")

\* An archive for two URLs: the vendor failed one without a message, the
\* other was downloaded
C4_Witness ==
  /\ Archived
  /\ Len(req.body.urls) = 2
  /\ responses = <<ItemFailNoMsg, ItemOk>>
  /\ dl = <<"none", "ok">>

\* The vendor call returned 2xx with a list of outcome records, none of them null
WellFormed ==
  /\ bulkStatus = "2xx"
  /\ bulkData.json = "object"
  /\ bulkData.respKind = "array"
  /\ \A i \in 1..Len(bulkData.list) : ~bulkData.list[i].isNull

\* C5: once the vendor call has returned 2xx with a well-formed list, no
\* callback's promise is rejected and the handler answers nothing but 200 with
\* the archive; every item that failed (at the vendor, with a non-2xx download,
\* a throwing download or throwing read) has exactly one row, a failure row.
C5_ItemFailuresStayRows ==
  (WellFormed /\ pc \notin {"bulk", "bulk_json"}) =>
    /\ \A i \in DOMAIN item : item[i] # "rejected"
    /\ pc = "responded" => Archived
    /\ \A i \in DOMAIN item :
         (item[i] \in {"failed", "done"} /\ dl[i] # "ok") =>
           /\ Cardinality(RowsOf(i)) = 1
           /\ \A k \in RowsOf(i) : ~results[k].success

\* An archive was returned although one download threw and another read threw
C5_Witness ==
  /\ Archived
  /\ WellFormed
  /\ dl = <<"exc", "readexc">>

\* C6 (as claimed): a POST that passes the step-1 checks is answered 200 with
\* the archive unless the vendor call returned non-2xx, and then 500 with a
\* JSON error and no archive.
C6_ArchiveUnlessVendorNon2xx ==
  (pc = "responded" /\ Step1Passes) =>
    IF bulkStatus = "non-2xx"
    THEN response.status = 500 /\ response.kind = "json"
         /\ response.archive = EmptyZip
    ELSE response.status = 200 /\ response.kind = "zip"

\* C8: an archive returned with status 200 holds exactly one manifest.txt
\* entry, as many image entries as the manifest's Successful count, and
\* Successful + Failed = Total URLs = the number of result rows.
C8_ArchiveCounts ==
  Archived =>
    /\ Cardinality({n \in DOMAIN response.archive :
                      response.archive[n].kind = "manifest"}) = 1
    /\ ManifestName \in DOMAIN response.archive
    /\ Cardinality(ImageNames(response.archive)) = Manifest.successful
    /\ Manifest.successful + Manifest.failed = Manifest.total
    /\ Manifest.total = Len(Manifest.rows)
    /\ Manifest.successful =
         Cardinality({k \in 1..Len(Manifest.rows) : Manifest.rows[k].ok})

\* An archive with two images of the same URL submitted twice
C8_Witness ==
  /\ Archived
  /\ req.body.urls = <<UA, UA>>
  /\ Manifest.successful = 2
  /\ Cardinality(ImageNames(response.archive)) = 2

----------------------------------------------------------------------------
(* Properties of the archive file names *)

\* C7: two items at different positions of one batch get different archive
\* file names, also when their URLs share host and path or are the same and
\* when the stem is cut to 100 characters; and no image is named manifest.txt.
C7_FilenamesDistinct ==
  fnNames # <<>> =>
    /\ fnNames[1] # fnNames[2]
    /\ fnNames[1] # ManifestName
    /\ fnNames[2] # ManifestName

\* Two URLs whose host and path differ only past the 100th character got
\* their names
C7_Witness ==
  /\ fnNames # <<>>
  /\ fnUrls = <<ULongB, ULongC>>
  /\ sanitizeFilename(fnUrls[1]) = sanitizeFilename(fnUrls[2])
  /\ Len(sanitizeFilename(fnUrls[1])) = MaxStemLen

----------------------------------------------------------------------------
(* Properties of generateScreenshot and the /screenshot handler *)

\* C9 (as claimed): for a url that fails the validator, generateScreenshot
\* issues no fetch and returns a failure, and the /screenshot handler answers
\* 400.
C9_NoFetchForInvalidUrl ==
  /\ (cpc # "idle" /\ ~isValidUrl(curl)) => clientFetches = 0
  /\ (cpc = "done" /\ ~isValidUrl(curl)) => ~result.success
  /\ ( /\ spc = "responded"
       /\ sreq.method = "POST"
       /\ sreq.apiKey # ""
       /\ sreq.body.json = "object"
       /\ sreq.body.urlKind = "string"
       /\ ~isValidUrl(sreq.body.url) ) => sresp.status = 400

\* C10 (as claimed): generateScreenshot returns the network error only when
\* no HTTP response was received; a non-2xx response gives the response's
\* error message, or the generic message when it has none.
C10_NetworkErrorOnlyOnTransport ==
  (cpc = "done" /\ cfg) =>
    /\ result.error = NetworkError => ~http.received
    /\ (http.received /\ (http.status < 200 \/ http.status > 299)) =>
         result = Failure(IF http.error = "" THEN GenericError ELSE http.error)

\* C11 (as claimed): the /screenshot handler, given a body that parses as
\* JSON, answers OPTIONS with the permissive 200 whatever the configuration
\* and body, any other non-POST method with 405, a POST without the
\* credential with 500, and a POST with the credential with 400 exactly when
\* body.url is missing, not a string or fails the validator, and otherwise
\* with 200 and a screenshotUrl.
C11_StatusByMethodAndBody ==
  (spc = "responded" /\ sreq.body.json # "invalid") =>
    IF sreq.method = "OPTIONS"
    THEN sresp.status = 200 /\ sresp.kind = "text"
    ELSE IF sreq.method # "POST" THEN sresp.status = 405
    ELSE IF sreq.apiKey = "" THEN sresp.status = 500
    ELSE IF \/ sreq.body.urlKind # "string"
            \/ ~isValidUrl(sreq.body.url)
    THEN sresp.status = 400 /\ sresp.screenshotUrl = NoTakeUrl
    ELSE sresp.status = 200 /\ sresp.screenshotUrl # NoTakeUrl

----------------------------------------------------------------------------
(* Properties of useScreenshots *)

\* Submission k has a call of generateScreenshot that has not settled
Unsettled(k) == \E i \in ItemsOf(k) : tasks[i].at = "call"

\* Every call of every submission has settled
EverySettled == tasks # <<>> /\ \A i \in 1..Len(tasks) : tasks[i].at # "call"

\* C12: isLoading is true from a submission until every single-screenshot
\* call of that submission has settled (a call of the submission that settles
\* earlier does not clear it), and once every call has settled isLoading
\* eventually becomes false.
C12_LoadingUntilAllSettled ==
  /\ [](\A k \in 1..MaxTasks : Unsettled(k) => isLoading)
  /\ (EverySettled ~> ~isLoading)

\* One call of a submission of two has finished, the other has not settled,
\* and isLoading is still true
C12_Witness ==
  /\ Len(tasks) = 2
  /\ tasks[1].sub = tasks[2].sub
  /\ tasks[1].at = "done"
  /\ tasks[2].at = "call"
  /\ isLoading

\* The entries of a list that carry id i
WithId(list, i) == {k \in 1..Len(list) : list[k].id = i}

\* The toasts added for item i
ToastsAbout(i) == {k \in 1..Len(toastLog) : toastLog[k].item = i}

\* C13: a submission puts exactly one entry per URL in the processing queue;
\* the entry of an item is there until the item's call has settled and its
\* callback has run on, and is removed once; each item gets exactly one
\* screenshot record, put in front of the list, and exactly one toast, the
\* record with status completed when the result is a success and error
\* otherwise; when the submission is through, the queue holds none of its
\* entries and the list has one more record per URL.
C13_OneEntryRecordToastPerUrl ==
  /\ \A i \in 1..Len(tasks) :
       /\ Cardinality(WithId(processingQueue, i)) =
            (IF tasks[i].at = "done" THEN 0 ELSE 1)
       /\ \A k \in WithId(processingQueue, i) :
            processingQueue[k].url = tasks[i].url
       /\ Cardinality(WithId(screenshots, i)) =
            (IF tasks[i].at = "done" THEN 1 ELSE 0)
       /\ Cardinality(ToastsAbout(i)) = (IF tasks[i].at = "done" THEN 1 ELSE 0)
       /\ \A k \in WithId(screenshots, i) :
            /\ screenshots[k].url = tasks[i].url
            /\ screenshots[k].status =
                 (IF tasks[i].result.success THEN "completed" ELSE "error")
       /\ \A k \in ToastsAbout(i) :
            toastLog[k].type =
              (IF tasks[i].result.success THEN "success" ELSE "error")
  /\ Len(processingQueue) =
       Cardinality({i \in 1..Len(tasks) : tasks[i].at # "done"})
  /\ Len(screenshots) =
       Cardinality({i \in 1..Len(tasks) : tasks[i].at = "done"})
  /\ Len(toastLog) = Len(screenshots)
  /\ \A k \in 1..Len(screenshots) :
       screenshots[k].id = toastLog[Len(toastLog) - k + 1].item

\* A submission of the same URL twice is through: one call succeeded, the
\* other failed, the second finished first
C13_Witness ==
  /\ Len(tasks) = 2
  /\ tasks[1].url = tasks[2].url
  /\ tasks[1].at = "done" /\ tasks[2].at = "done"
  /\ tasks[1].result.success /\ ~tasks[2].result.success
  /\ processingQueue = <<>>
  /\ Len(screenshots) = 2
  /\ screenshots[1].id = 1
  /\ ~isLoading

----------------------------------------------------------------------------
(* Properties of isValidUrl *)

\* C14: every copy of isValidUrl (hook, client library, /screenshot handler,
\* bulk-screenshot handler) returns true for a string exactly when the string
\* parses as a URL and its scheme is http or https; the empty string, a
\* scheme-relative URL and an ftp: or javascript: URL are rejected; and the
\* copies agree on every string.
C14_ValidatorCopies ==
  vOut # <<>> =>
    /\ \A k \in 1..4 :
         vOut[k] <=> /\ NewURL(vIn).scheme # ""
                     /\ NewURL(vIn).scheme \in {"http:", "https:"}
    /\ \A k \in 1..4 : vOut[k] = vOut[1]
    /\ vIn = <<>> => ~vOut[1]
    /\ (Len(vIn) >= 2 /\ SubSeq(vIn, 1, 2) = <<"/", "/">>) => ~vOut[1]
    /\ (Len(vIn) >= 2 /\ vIn[1] \in {"ftp", "javascript"} /\ vIn[2] = ":")
         => ~vOut[1]
    /\ (Len(vIn) >= 3 /\ vIn[1] \in {"http", "https", "HTTP"}
        /\ vIn[2] = ":" /\ vIn[3] = "a" /\ " " \notin Range(vIn)
        /\ ":" \notin Range(SubSeq(vIn, 3, Len(vIn)))) => vOut[1]

\* A string that parses, with a scheme that is not http(s), was rejected by
\* every copy
C14_Witness ==
  /\ vIn = <<"javascript", ":", "a">>
  /\ NewURL(vIn).scheme = "javascript:"
  /\ vOut = <<FALSE, FALSE, FALSE, FALSE>>

----------------------------------------------------------------------------
(* Properties of parseCSVForUrls *)

\* The cells of a text: what lies between commas and line feeds, with white
\* space and then one quote at either end removed
CellsOf(text) ==
  LET rows == SplitOn(text, "\n")
      raw == Concat([i \in 1..Len(rows) |-> SplitOn(rows[i], ",")])
  IN [i \in 1..Len(raw) |-> Unquote(Trim(raw[i]))]

\* The string passes the validator
Passes(c) == NewURL(c).scheme \in {"http:", "https:"}

FirstAt(list, x) == Least({i \in 1..Len(list) : list[i] = x})

C16_RoundTrip ==
  parsed # <<>> =>
    LET list == SplitOn(csvContent, "\n")
    IN ( /\ \A i \in 1..Len(list) : Passes(list[i])
         /\ \A i, j \in 1..Len(list) : i # j => list[i] # list[j] )
       => parsed[1] = list

\* C17: in CsvUpload, whatever files are selected and cleared, the held URL
\* list never has more than 20 entries and generateBulkScreenshotsZip never
\* comes to its capacity error; and when the read of a file that holds more
\* than 20 URLs settles, the list becomes the first 20 URLs of the file, in
\* the file's order, and the error names the number found and the maximum 20
C17_HeldListCapped ==
  /\ [](Len(csvUrls) <= 20 /\ zipCall # "capacity")
  /\ [][\A r \in reads :
          (reads' = reads \ {r} /\ r.f.ok /\ r.f.lines > 20)
          => /\ csvUrls' = [i \in 1..20 |-> UrlNo(i)]
             /\ csvError'.found = r.f.lines
             /\ csvError'.max = 20]_vars

\* C17 witness: a file of 21 URLs was read, its first 20 are held with the
\* error that counts 21, and a later request for the archive was sent
C17_Witness ==
  /\ file = File(<<"urls", ".csv">>, TRUE, 21)
  /\ Len(csvUrls) = 20
  /\ csvUrls[20] = UrlNo(20)
  /\ zipCall = "sent"
  /\ reads = {}

\* A download of item i is pending: its fetch or the read of its body has
\* not settled
Pending(i) == item[i] \in {"fetching", "reading"}

\* C18: the bulk-screenshot handler adds the manifest, serializes the archive
\* and gives its 200 response only when no download is pending any more,
\* however early the other items settled
C18_NoArchiveWhileDownloading ==
  ( \/ ManifestName \in DOMAIN zip
    \/ pc = "zipping"
    \/ (pc = "responded" /\ response.status = 200) )
  => \A i \in DOMAIN item : ~Pending(i)

\* C18 witness: the archive was returned for two items, the first of which
\* failed at once at the vendor while the second was downloaded and read
C18_Witness ==
  /\ pc = "responded"
  /\ response.status = 200
  /\ response.kind = "zip"
  /\ Len(item) = 2
  /\ responses[1].is_successful = FALSE
  /\ dl = <<"none", "ok">>

\* The first check of the five that request r fails, in the order of the
\* claim, as the response it must get; NoResponse when it fails none.  The
\* checks of the urls are those of a body that req.json() gave as an object.
FirstFailingCheck(r) ==
  IF r.method # "POST" THEN JsonError(405, "Method not allowed")
  ELSE IF ~r.apiKey THEN JsonError(500, "Screenshot service not configured")
  ELSE IF r.body.json # "object" THEN NoResponse
  ELSE IF r.body.urlsKind # "array" \/ r.body.urls = <<>>
  THEN JsonError(400, "URLs array is required")
  ELSE IF Len(r.body.urls) > 20
  THEN JsonError(400, "Maximum 20 URLs allowed per request")
  ELSE IF \E i \in 1..Len(r.body.urls) : ~isValidUrl(r.body.urls[i])
  THEN Resp(400, "json", "Invalid URLs",
            SelectSeqP(r.body.urls,
                       {u \in Range(r.body.urls) : ~isValidUrl(u)}, 1),
            EmptyZip, "")
  ELSE NoResponse

\* C19: a request to the bulk-screenshot handler that fails one of the checks
\* (method, credential, urls present, at most 20 urls, every URL valid) is
\* answered by the first check it fails in that order, whatever later checks
\* it would fail too, and no vendor call is made for it
C19_FirstFailingCheckAnswers ==
  (pc # "idle" /\ req.method # "OPTIONS" /\ FirstFailingCheck(req) # NoResponse)
  => /\ vendorCalls = 0
     /\ pc \in {"body", "responded"}
     /\ pc = "responded" => response = FirstFailingCheck(req)

\* C19 witness: 21 URLs with an invalid one among them were answered with
\* the capacity error
C19_Witness ==
  /\ pc = "responded"
  /\ req.method = "POST"
  /\ req.apiKey
  /\ req.body.urls = OverCapInvalid
  /\ response.status = 400
  /\ response.error = "Maximum 20 URLs allowed per request"
  /\ response.names = <<>>

\* C20: a call of generateScreenshot issues at most one request and never
\* rejects: it ends with a result, and without configuration (no request at
\* all), after a fetch that threw, after a response whose body could not be
\* read as JSON and after a response that is not 2xx the result is a failure
\* with an error text
C20_OneRequestNeverRejects ==
  /\ clientFetches <= 1
  /\ cpc \in {"idle", "fetching", "reading", "done"}
  /\ cpc = "done" =>
       /\ result.success \in BOOLEAN
       /\ ~cfg => (clientFetches = 0 /\ ~result.success)
       /\ (cfg /\ ~http.received) => ~result.success
       /\ (http.received /\ http.body # "json") => ~result.success
       /\ (http.received /\ (http.status < 200 \/ http.status > 299))
            => ~result.success
       /\ ~result.success => result.error # ""

\* C20 witness: the one request was answered with a page that is not JSON,
\* and the call ended with a failure
C20_Witness ==
  /\ cpc = "done"
  /\ cfg
  /\ clientFetches = 1
  /\ http.received
  /\ http.body = "html"
  /\ ~result.success
  /\ result.error # ""

\* The ids of the entries of a queue, and the progress of the entry of an id
QueueIds(q) == {q[k].id : k \in 1..Len(q)}
ProgressOf(q, id) == q[CHOOSE k \in 1..Len(q) : q[k].id = id].progress

C22_VendorListIsSanitizedList ==
  pc = "bulk" =>
    /\ Len(cleanUrls) = Len(req.body.urls)
    /\ \A i \in 1..Len(cleanUrls) :
         LET sent == cleanUrls[i]
             given == req.body.urls[i]
             kept == {k \in 1..Len(given.query) :
                        given.query[k] \notin ConsentParams}
         IN /\ sent.scheme = given.scheme
            /\ sent.hostpath = given.hostpath
            /\ Len(sent.query) = Cardinality(kept)
            /\ \A n \in 1..Len(sent.query) :
                 \E k \in kept :
                   /\ sent.query[n] = given.query[k]
                   /\ Cardinality({j \in kept : j < k}) = n - 1
            /\ sanitizeUrl(sent) = sent
            /\ isValidUrl(sent)

\* C22 witness: "?x&gdpr&y" went to the vendor as "?x&y", before a second URL
\* that lost its only parameter
C22_Witness ==
  /\ pc = "bulk"
  /\ req.body.urls = <<Url("https:", <<"a", ".", "c", "/">>, <<"x", "gdpr", "y">>), UAq>>
  /\ cleanUrls = <<Url("https:", <<"a", ".", "c", "/">>, <<"x", "y">>), UA>>

\* The ids of the toasts shown
ToastIds(list) == {list[k].id : k \in 1..Len(list)}

\* C23: a toast that is shown is removed in the end, by dismissToast or else
\* by its own timeout; a timeout that fires after its toast was dismissed
\* leaves the list as it is; and a step that removes a toast removes that one
\* toast only and leaves the others in their order
C23_ToastsRemovedOneByOne ==
  /\ \A id \in 1..MaxTasks : (id \in ToastIds(toasts)) ~> (id \notin ToastIds(toasts))
  /\ [][/\ \A id \in timers :
             (id \notin timers' /\ id \notin ToastIds(toasts)) => toasts' = toasts
        /\ Len(toasts') < Len(toasts) =>
             \E k \in 1..Len(toasts) :
               toasts' = SubSeq(toasts, 1, k - 1)
                           \o SubSeq(toasts, k + 1, Len(toasts))
        /\ \A id \in timers :
             (id \notin timers' /\ id \in ToastIds(toasts))
             => ToastIds(toasts') = ToastIds(toasts) \ {id}]_vars

\* C23 witness: the first toast was dismissed and its timeout has not fired,
\* while the second toast is still shown
C23_Witness ==
  /\ ToastIds(toasts) = {2}
  /\ timers = {1, 2}

\* The vendor reported item i as a render failure / as rendered, so that its
\* image download is attempted
RenderFailed(i) == ~responses[i].isNull /\ ~responses[i].is_successful
Attempted(i) == ~responses[i].isNull /\ responses[i].is_successful

\* C24: in the results list of the bulk-screenshot handler the row of every
\* item the vendor reported as a render failure stands before the row of any
\* item whose download was attempted, whatever their positions and however
\* the downloads interleave; and the manifest lists the rows in that order
C24_RenderFailuresFirst ==
  /\ \A i \in DOMAIN item, j \in DOMAIN item :
       (RenderFailed(i) /\ Attempted(j)) =>
         \A l \in RowsOf(j) : \E k \in RowsOf(i) : k < l
  /\ Archived =>
       /\ Len(Manifest.rows) = Len(results)
       /\ \A k \in 1..Len(results) :
            /\ Manifest.rows[k].url = results[k].url
            /\ Manifest.rows[k].ok = results[k].success

\* C24 witness: the second item failed at the vendor, the first was downloaded,
\* and the manifest of the archive lists the second item's row first
C24_Witness ==
  /\ Archived
  /\ Len(responses) = 2
  /\ Attempted(1)
  /\ RenderFailed(2)
  /\ req.body.urls = <<UA, UAq>>
  /\ Manifest.rows[1].url = UAq
  /\ ~Manifest.rows[1].ok
  /\ Manifest.rows[2].url = UA

\* C25: when the archive is returned, the manifest has one row for each record
\* of the vendor's answer and its total is the number of records, whatever
\* the number of URLs submitted; the row of record i is labelled body.urls[i];
\* and an answer with no record, or with no responses field, is answered 200
\* with an archive that holds manifest.txt only, a total of 0 and a success
\* rate of 0 divided by 0
C25_RowsFollowVendorRecords ==
  /\ Archived =>
       /\ Manifest.total = Len(responses)
       /\ Len(Manifest.rows) = Len(responses)
       /\ \A i \in 1..Len(responses) :
            \E k \in RowsOf(i) : Manifest.rows[k].url = originalUrl(i)
  /\ ( /\ pc = "responded"
       /\ bulkStatus = "2xx"
       /\ bulkData.json = "object"
       /\ bulkData.respKind \in {"absent", "array"}
       /\ bulkData.list = <<>> )
     => /\ Archived
        /\ DOMAIN response.archive = {ManifestName}
        /\ Manifest.total = 0
        /\ Manifest.rows = <<>>
        /\ SuccessRate(results) = [dividend |-> 0, divisor |-> 0]

\* C25 witness: two URLs were submitted, the vendor's answer had no responses
\* field, and an archive with nothing but the manifest was returned
C25_Witness ==
  /\ Archived
  /\ Len(req.body.urls) = 2
  /\ bulkData.respKind = "absent"
  /\ DOMAIN response.archive = {ManifestName}
  /\ Manifest.total = 0

\* C26 (as claimed): the response of the /screenshot handler does not depend
\* on the value of the access key: had the handler been configured with any
\* other non-empty key and given the same request, its response would have
\* been the one it gave
C26_ResponseIndependentOfKey ==
  (spc = "responded" /\ sreq.method = "POST" /\ sreq.apiKey # "") =>
    \A k \in Keys \ {""} : SAnswer([sreq EXCEPT !.apiKey = k]) = sresp

\* C27 (as claimed): however generateScreenshots is called, also while calls
\* of an earlier submission are unsettled, no call of generateScreenshot is in
\* flight while isLoading is false, and every item whose call is in flight
\* has its entry in the processing queue
C27_InFlightMeansLoadingAndQueued ==
  \A id \in DOMAIN tasks :
    tasks[id].at = "call" =>
      /\ isLoading
      /\ \E k \in 1..Len(processingQueue) :
           /\ processingQueue[k].id = id
           /\ processingQueue[k].url = tasks[id].url

\* C28 (as claimed): a POST that passes the step-1 checks with a speed other
\* than fastest, fast, balanced or quality leads to no vendor call and is
\* answered 500 with a JSON error; with no speed the fast preset is used and
\* reported as the mode of the archive
C28_UnknownSpeedRejected ==
  (pc \notin {"idle", "body"} /\ Step1Passes) =>
    IF req.body.speed = ""
    THEN /\ speedMode = "fast"
         /\ Archived => (response.mode = "fast" /\ Manifest.mode = "fast")
    ELSE req.body.speed \notin {"fastest", "fast", "balanced", "quality"} =>
           /\ vendorCalls = 0
           /\ pc = "responded"
           /\ response.status = 500
           /\ response.kind = "json"

\* C29: in CsvUpload, the selection of a file whose name does not end in .csv
\* makes it the held file and sets the error, and leaves the URL list as it
\* was; the list changes only when clearFile runs or when the read of a .csv
\* file settles with its text
C29_ListKeptOnOtherFile ==
  [][/\ ( /\ file' # NoFile
          /\ ~EndsWithCsv(file'.name)
          /\ reads' = reads
          /\ zipCall' = zipCall )
        => /\ csvUrls' = csvUrls
           /\ csvError'.text = "Please upload a CSV file"
     /\ csvUrls' # csvUrls
        => \/ file' = NoFile /\ csvUrls' = <<>> /\ reads' = reads
           \/ \E r \in reads : /\ reads' = reads \ {r}
                               /\ r.f.ok
                               /\ EndsWithCsv(r.f.name)]_vars

\* C29 witness: the file held is notes.txt, the list still holds the two URLs
\* of the .csv file read before, and the archive was asked for with them
C29_Witness ==
  /\ file = File(<<"notes", ".txt">>, TRUE, 2)
  /\ csvUrls = <<UrlNo(1), UrlNo(2)>>
  /\ reads = {}
  /\ zipCall = "sent"

\* C30 (as claimed): in CsvUpload, once every read has settled, the URL list
\* is the extraction, cut to 20, of the .csv file that is held, the one
\* selected last, in whatever order the reads settled
C30_ListOfLastSelectedFile ==
  (reads = {} /\ file # NoFile /\ EndsWithCsv(file.name) /\ file.ok) =>
    csvUrls = [i \in 1..(IF file.lines > 20 THEN 20 ELSE file.lines) |-> UrlNo(i)]

====
